---- MODULE Spec2Model ----
(***************************************************************************)
(* InventoryTracker: the storage layer (server/storage.ts), the REST       *)
(* handlers that write through it (server/routes.ts) and the notification  *)
(* scanner (server/notification-service.ts).                               *)
(*                                                                         *)
(* A JavaScript object is a TLA+ function from its keys to their values,   *)
(* so a zod parse (required keys, unknown keys stripped) and an object     *)
(* spread ({...a, k: v}) are modelled by what they do to the keys.         *)
(* Every await of a storage call is one atomic step of the database; the   *)
(* synchronous code that follows it up to the next await belongs to the    *)
(* same step.                                                              *)
(***************************************************************************)
EXTENDS Integers, Sequences, FiniteSets, TLC

\* ------------------------------------------------------------------ bounds
MaxProcs == 2
MaxItems == 2
MaxQty == 2
MaxAssignments == 2

Procs == 1..MaxProcs

VARIABLES
    backend,        \* "mem" (MemStorage) or "db" (DatabaseStorage)
    items,          \* the items table, items[i] is the row with id i
    assignments,    \* the assignments table, in insertion order
    req,            \* per connection: the request being handled
    reply,          \* the response sent last, with the request it answers
    invoices,       \* the invoices table, invoices[i] is the row with id i
    notifications,  \* the notifications table, in insertion order
    now,            \* the clock (Date.now() and the database's now()), in hours
    scan            \* per invocation and check: where the check stands

vars ==
    <<backend, items, assignments, req, reply,
      invoices, notifications, now, scan>>

\* What the request handlers leave alone, and what the scanner leaves alone.
scannerVars == <<invoices, notifications, now, scan>>
handlerVars == <<items, assignments, req, reply>>

\* ------------------------------------------------------- objects and zod
\* {...a, ...b}: the keys of b override those of a.
Spread(a, b) ==
    [k \in (DOMAIN a) \cup (DOMAIN b) |-> IF k \in DOMAIN b THEN b[k] ELSE a[k]]

\* z.object(...).parse keeps the schema's keys and strips the others.
Strip(obj, keys) == [k \in (DOMAIN obj) \cap keys |-> obj[k]]

\* The notNull columns of items left in insertItemSchema (id and
\* quantityAvailable are omitted). name and category are text columns no
\* handler reads; they are not carried in the model.
InsertItemKeys == {"quantityPurchased", "unitPrice", "invoiceId"}

\* The notNull columns of assignments left in insertAssignmentSchema (id is
\* omitted). The schema is the column types only: quantity is any integer.
\* assignedTo is a text column no handler reads; reason is optional.
InsertAssignmentKeys == {"itemId", "quantity", "assignmentDate"}

\* schema.parse(body): the parsed object, or a ZodError.
ZodError == [zodError |-> TRUE]

InsertItemSchemaParse(body) ==
    IF InsertItemKeys \subseteq DOMAIN body
    THEN Strip(body, InsertItemKeys)
    ELSE ZodError

\* A variant in which every key is optional.
InsertAssignmentSchemaParse_Partial(body) == Strip(body, InsertAssignmentKeys)

InsertAssignmentSchemaParse(body) ==
    IF InsertAssignmentKeys \subseteq DOMAIN body
    THEN Strip(body, InsertAssignmentKeys)
    ELSE ZodError

\* ---------------------------------------------------------------- storage
\* createItem of either backend: the row is the insert object with the next
\* id, and quantityAvailable overridden by quantityPurchased.
\* A variant whose spread comes last, so the caller's keys win.
MemCreateItem_SpreadLast(insertItem, id) ==
    Spread([id |-> id, quantityAvailable |-> insertItem.quantityPurchased],
           insertItem)

MemCreateItem(insertItem, id) ==
    Spread(insertItem,
           [id |-> id, quantityAvailable |-> insertItem.quantityPurchased])

DbCreateItem(insertItem, id) ==
    Spread(Spread(insertItem,
                  [quantityAvailable |-> insertItem.quantityPurchased]),
           [id |-> id])

CreateItem(insertItem, id) ==
    IF backend = "mem" THEN MemCreateItem(insertItem, id)
    ELSE DbCreateItem(insertItem, id)

\* getItemById: the row, or undefined.
Undefined == [undefined |-> TRUE]

GetItemById(id) == IF id \in DOMAIN items THEN items[id] ELSE Undefined

\* A variant that writes the whole row from the new count.
UpdateItemQuantity_WholeRow(id, quantityAvailable) ==
    IF id \in DOMAIN items
    THEN [items EXCEPT ![id] =
            Spread(@, [quantityAvailable |-> quantityAvailable,
                       quantityPurchased |-> quantityAvailable])]
    ELSE items

\* updateItemQuantity: the row's quantityAvailable is set to the value given;
\* an unknown id changes nothing.
UpdateItemQuantity(id, quantityAvailable) ==
    IF id \in DOMAIN items
    THEN [items EXCEPT ![id] =
            Spread(@, [quantityAvailable |-> quantityAvailable])]
    ELSE items

\* A variant that hands out the last id again instead of the next one.
CreateAssignment_SameId(insertAssignment) ==
    Spread(insertAssignment,
           [id |-> IF assignments = <<>> THEN 1 ELSE Len(assignments)])

\* createAssignment: the row is the insert object with the next id.
CreateAssignment(insertAssignment) ==
    Spread(insertAssignment, [id |-> Len(assignments) + 1])

\* this.assignments.set(id, assignment) / insert(assignments): the table
\* with the row stored under its id.
StoreAssignment(assignment) ==
    IF assignment.id \in DOMAIN assignments
    THEN [assignments EXCEPT ![assignment.id] = assignment]
    ELSE Append(assignments, assignment)

\* ----------------------------------------------------------- connections
NoBody == [none |-> TRUE]

Idle ==
    [pc |-> "idle", kind |-> "none", body |-> NoBody, item |-> Undefined,
     data |-> NoBody, todo |-> <<>>, created |-> <<>>]

NoReply ==
    [conn |-> 0, kind |-> "none", body |-> NoBody, status |-> 0,
     message |-> "", available |-> 0, payload |-> <<>>]

\* res.status(status).json(...) ends the request of connection p, whose
\* state is r. `available` is the count quoted in the message, `payload` the
\* rows sent back.
Respond(p, r, status, message, available, payload) ==
    /\ req' = [req EXCEPT ![p] = Idle]
    /\ reply' = [conn |-> p, kind |-> r.kind, body |-> r.body,
                 status |-> status, message |-> message,
                 available |-> available, payload |-> payload]

Free(p) == req[p].pc = "idle"
NoneInFlight == \A p \in Procs : Free(p)

\* ------------------------------------------------------ request bodies
QtyPurchasedInputs == -1..MaxQty
QuantityInputs == -1..MaxQty
ClientQuantityAvailable == MaxQty + 3
UnitPriceInputs == {150}
InvoiceIdInputs == {1}

ItemObjects ==
    [quantityPurchased : QtyPurchasedInputs, unitPrice : UnitPriceInputs,
     invoiceId : InvoiceIdInputs]

\* What a client may send as one item: a well-formed object, one that also
\* carries quantityAvailable, or one without quantityPurchased.
RawItems ==
    ItemObjects
    \cup {Spread(o, [quantityAvailable |-> ClientQuantityAvailable]) :
             o \in ItemObjects}
    \cup [unitPrice : UnitPriceInputs, invoiceId : InvoiceIdInputs]

\* POST /api/items takes one item or {items: [...]}.
ItemsBodies ==
    RawItems
    \cup {[items |-> <<>>]}
    \cup {[items |-> <<a>>] : a \in RawItems}
    \cup {[items |-> <<a, b>>] : a \in RawItems, b \in RawItems}

\* POST /api/assignments: itemId may name no item; quantity may be missing.
AssignmentDateInputs == {0}

AssignmentBodies ==
    [itemId : 1..(MaxItems + 1), quantity : QuantityInputs,
     assignmentDate : AssignmentDateInputs]
    \cup [itemId : {MaxItems + 1}, assignmentDate : AssignmentDateInputs]

\* -------------------------------------------------- POST /api/assignments
\* Variants of the availability check: none at all, against the purchased
\* count, and one that also turns away a request for all that is left.
InsufficientQuantity_NoCheck(item, quantity) == FALSE
InsufficientQuantity_Purchased(item, quantity) ==
    item.quantityPurchased < quantity
InsufficientQuantity_Inclusive(item, quantity) ==
    item.quantityAvailable <= quantity

\* if (item.quantityAvailable < validatedData.quantity)
InsufficientQuantity(item, quantity) == item.quantityAvailable < quantity

\* A variant that decrements the purchased count.
NewQuantityAvailable_Purchased(item, quantity) ==
    item.quantityPurchased - quantity

\* A variant that decrements the row as it is when the update runs.
NewQuantityAvailable_FromRow(item, quantity) ==
    items[item.id].quantityAvailable - quantity

\* The value handed to updateItemQuantity: computed from the item as it was
\* read by getItemById, not from the row as it is when the update runs.
NewQuantityAvailable(item, quantity) == item.quantityAvailable - quantity

InFlightCreates == Cardinality({p \in Procs : req[p].pc = "create"})

\* The handler from its start to the await of createAssignment: parse, then
\* getItemById, then the two checks. `throws` is getItemById failing.
PostAssignmentLookup(p, body, throws) ==
    LET validatedData == InsertAssignmentSchemaParse(body)
        r == [Idle EXCEPT !.kind = "assignment", !.body = body]
    IN  /\ Free(p)
        /\ Len(assignments) + InFlightCreates < MaxAssignments
        /\ IF validatedData = ZodError
           THEN Respond(p, r, 400, "Validation error", 0, <<>>)
           ELSE IF throws
           THEN Respond(p, r, 500, "Failed to create assignment", 0, <<>>)
           ELSE LET item == GetItemById(validatedData.itemId)
                IN  IF item = Undefined
                    THEN Respond(p, r, 404, "Item not found", 0, <<>>)
                    ELSE IF InsufficientQuantity(item, validatedData.quantity)
                    THEN Respond(p, r, 400, "Insufficient quantity",
                                 item.quantityAvailable, <<>>)
                    ELSE /\ req' = [req EXCEPT ![p] =
                                [r EXCEPT !.pc = "create", !.item = item,
                                          !.data = validatedData]]
                         /\ UNCHANGED reply
        /\ UNCHANGED <<backend, items, assignments, scannerVars>>

\* await storage.createAssignment(validatedData)
PostAssignmentCreate(p, throws) ==
    /\ req[p].pc = "create"
    /\ IF throws
       THEN /\ Respond(p, req[p], 500, "Failed to create assignment", 0, <<>>)
            /\ UNCHANGED assignments
       ELSE LET assignment == CreateAssignment(req[p].data)
            IN  /\ assignments' = StoreAssignment(assignment)
                /\ req' = [req EXCEPT ![p].pc = "update",
                                      ![p].created = <<assignment>>]
                /\ UNCHANGED reply
    /\ UNCHANGED <<backend, items, scannerVars>>

\* await storage.updateItemQuantity(...); res.json(assignment)
PostAssignmentUpdate(p, throws) ==
    /\ req[p].pc = "update"
    /\ IF throws
       THEN /\ Respond(p, req[p], 500, "Failed to create assignment", 0, <<>>)
            /\ UNCHANGED items
       ELSE /\ items' = UpdateItemQuantity(
                            req[p].data.itemId,
                            NewQuantityAvailable(req[p].item,
                                                 req[p].data.quantity))
            /\ Respond(p, req[p], 200, "", 0, req[p].created)
    /\ UNCHANGED <<backend, assignments, scannerVars>>

\* -------------------------------------------------------- POST /api/items
\* const items = req.body.items || [req.body]
ItemsOfBody(body) == IF "items" \in DOMAIN body THEN body.items ELSE <<body>>

PendingItems ==
    LET n[k \in 0..MaxProcs] ==
            IF k = 0 THEN 0
            ELSE n[k - 1] + (IF req[k].pc = "items" THEN Len(req[k].todo) ELSE 0)
    IN  n[MaxProcs]

\* One turn of the for loop of the handler in connection state r: parse the
\* next element and await createItem; after the last element, res.json.
\* `throws` is createItem failing.
ItemsLoop(p, r, throws) ==
    IF r.todo = <<>>
    THEN /\ Respond(p, r, 200, "", 0, r.created)
         /\ UNCHANGED items
    ELSE LET validatedData == InsertItemSchemaParse(Head(r.todo))
         IN  IF validatedData = ZodError
             THEN /\ Respond(p, r, 400, "Validation error", 0, <<>>)
                  /\ UNCHANGED items
             ELSE IF throws
             THEN /\ Respond(p, r, 500, "Failed to create items", 0, <<>>)
                  /\ UNCHANGED items
             ELSE LET item == CreateItem(validatedData, Len(items) + 1)
                      next == [r EXCEPT !.pc = "items", !.todo = Tail(@),
                                        !.created = Append(@, item)]
                  IN  /\ items' = Append(items, item)
                      /\ IF next.todo = <<>>
                         THEN Respond(p, next, 200, "", 0, next.created)
                         ELSE /\ req' = [req EXCEPT ![p] = next]
                              /\ UNCHANGED reply

PostItemsStart(p, body, throws) ==
    /\ Free(p)
    /\ Len(items) + PendingItems + Len(ItemsOfBody(body)) <= MaxItems
    /\ ItemsLoop(p, [Idle EXCEPT !.kind = "items", !.body = body,
                                 !.todo = ItemsOfBody(body)], throws)
    /\ UNCHANGED <<backend, assignments, scannerVars>>

PostItemsNext(p, throws) ==
    /\ req[p].pc = "items"
    /\ ItemsLoop(p, req[p], throws)
    /\ UNCHANGED <<backend, assignments, scannerVars>>

\* storage.createItem called with an object of the caller's making.
StorageCreateItem(insertItem) ==
    /\ Len(items) + PendingItems < MaxItems
    /\ InsertItemKeys \subseteq DOMAIN insertItem
    /\ items' = Append(items, CreateItem(insertItem, Len(items) + 1))
    /\ UNCHANGED <<backend, assignments, req, reply, scannerVars>>

\* ---------------------------------------------------- notification storage
\* createNotification. DatabaseStorage inserts the row: the next id and
\* createdAt now() by the column defaults, isRead 0 by its default unless the
\* argument carries one (the checks pass none); relatedId || null keeps
\* every id a row can have, ids start at 1. MemStorage builds a row and
\* stores nothing.
DbCreateNotification(insertNotification) ==
    Append(notifications,
           Spread(Spread([isRead |-> 0], insertNotification),
                  [id |-> Len(notifications) + 1, createdAt |-> now]))

\* A variant of the in-memory method that keeps the row it builds.
MemCreateNotification_Stores(insertNotification) ==
    DbCreateNotification(insertNotification)

MemCreateNotification(insertNotification) == notifications

CreateNotification(insertNotification) ==
    IF backend = "mem" THEN MemCreateNotification(insertNotification)
    ELSE DbCreateNotification(insertNotification)

\* getNotifications: every row (the order plays no part in a find that any
\* matching row satisfies); MemStorage returns [].
GetNotifications == IF backend = "mem" THEN <<>> ELSE notifications

\* getUnreadNotifications: the rows with isRead = 0; MemStorage returns [].
GetUnreadNotifications ==
    IF backend = "mem" THEN <<>>
    ELSE SelectSeq(notifications, LAMBDA n : n.isRead = 0)

\* update(notifications).set({ isRead: 1 }) over the rows that `where`
\* accepts.
SetRead(where(_)) ==
    [k \in DOMAIN notifications |->
        IF where(notifications[k])
        THEN [notifications[k] EXCEPT !.isRead = 1]
        ELSE notifications[k]]

\* A variant that toggles the flag.
DbMarkNotificationAsRead_Toggle(id) ==
    [k \in DOMAIN notifications |->
        IF notifications[k].id = id
        THEN [notifications[k] EXCEPT !.isRead = 1 - @]
        ELSE notifications[k]]

\* DatabaseStorage.markNotificationAsRead: the table after the update.
DbMarkNotificationAsRead(id) == SetRead(LAMBDA n : n.id = id)

\* A variant that marks the rows already read.
DbMarkAllNotificationsAsRead_Read ==
    SetRead(LAMBDA n : n.isRead = 1)

\* DatabaseStorage.markAllNotificationsAsRead: the table after the update.
DbMarkAllNotificationsAsRead == SetRead(LAMBDA n : n.isRead = 0)

\* What a storage call returned.
Returns(call, arg, rows) ==
    reply' = [NoReply EXCEPT !.kind = call, !.body = arg, !.payload = rows]

\* markNotificationAsRead(id) is called and returns the updated row, or
\* undefined (no row) when the update returned none; MemStorage returns
\* undefined and stores nothing.
MarkNotificationAsRead(id) ==
    /\ notifications' = IF backend = "mem" THEN notifications
                        ELSE DbMarkNotificationAsRead(id)
    /\ Returns("markNotificationAsRead", [id |-> id],
               IF backend = "mem" THEN <<>>
               ELSE SelectSeq(notifications', LAMBDA n : n.id = id))
    /\ UNCHANGED <<backend, items, assignments, req, invoices, now, scan>>

\* markAllNotificationsAsRead() is called and returns.
MarkAllNotificationsAsRead ==
    /\ notifications' = IF backend = "mem" THEN notifications
                        ELSE DbMarkAllNotificationsAsRead
    /\ Returns("markAllNotificationsAsRead", NoBody, <<>>)
    /\ UNCHANGED <<backend, items, assignments, req, invoices, now, scan>>

\* ------------------------------------------------------ NotificationService
\* Times are in hours: the code's milliseconds over 60 * 60 * 1000 (TLC's
\* integers are 32 bits wide, 30 days of milliseconds are not).
LowStockWindow == 24
ReorderWindow == 48
ReminderWindow == 7 * 24
ApprovalWindow == 24
\* thirtyDaysAgo.setDate(thirtyDaysAgo.getDate() - 30)
ThirtyDays == 30 * 24

Checks ==
    {"low_stock", "reorder_suggestion", "assignment_reminder",
     "invoice_approval"}

Window(type) ==
    CASE type = "low_stock" -> LowStockWindow
      [] type = "reorder_suggestion" -> ReorderWindow
      [] type = "assignment_reminder" -> ReminderWindow
      [] type = "invoice_approval" -> ApprovalWindow

\* The elements of a table that satisfy keep, in the table's order, each
\* mapped by make.
FilterMap(table, keep(_), make(_)) ==
    LET f[k \in 0..Len(table)] ==
            IF k = 0 THEN <<>>
            ELSE IF keep(table[k]) THEN Append(f[k - 1], make(table[k]))
                 ELSE f[k - 1]
    IN  f[Len(table)]

\* reduce((sum, item) => sum + item.unitPrice * item.quantityPurchased, 0)
\* over the items of the invoice.
TotalValue(invoiceId) ==
    LET sum[k \in 0..Len(items)] ==
            IF k = 0 THEN 0
            ELSE sum[k - 1] + (IF items[k].invoiceId = invoiceId
                               THEN items[k].unitPrice
                                        * items[k].quantityPurchased
                               ELSE 0)
    IN  sum[Len(items)]

\* items.find(i => i.id === assignment.itemId)
ItemOfAssignment(assignment) == GetItemById(assignment.itemId)

\* A variant whose low-stock band takes in 5 and whose urgent band stops
\* below 2.
LowStockNotifications_Shifted ==
    LET keep(item) ==
            item.quantityAvailable <= 5 /\ item.quantityAvailable > 0
        make(item) ==
            [type |-> "low_stock",
             priority |-> IF item.quantityAvailable < 2 THEN "urgent"
                          ELSE "high",
             relatedId |-> item.id]
    IN  FilterMap(items, keep, make)

\* What each check would create, in the order of its loop, from the tables
\* as its first reads return them.
LowStockNotifications ==
    LET keep(item) ==
            item.quantityAvailable < 5 /\ item.quantityAvailable > 0
        make(item) ==
            [type |-> "low_stock",
             priority |-> IF item.quantityAvailable <= 2 THEN "urgent"
                          ELSE "high",
             relatedId |-> item.id]
    IN  FilterMap(items, keep, make)

ReorderNotifications ==
    LET keep(item) == item.quantityAvailable = 0
        make(item) ==
            [type |-> "reorder_suggestion", priority |-> "medium",
             relatedId |-> item.id]
    IN  FilterMap(items, keep, make)

\* A variant keyed by the item.
ReminderNotifications_ByItem ==
    LET keep(assignment) ==
            /\ ItemOfAssignment(assignment) # Undefined
            /\ ItemOfAssignment(assignment).unitPrice > 100
            /\ assignment.assignmentDate < now - ThirtyDays
        make(assignment) ==
            [type |-> "assignment_reminder", priority |-> "low",
             relatedId |-> assignment.itemId]
    IN  FilterMap(assignments, keep, make)

ReminderNotifications ==
    LET keep(assignment) ==
            /\ ItemOfAssignment(assignment) # Undefined
            /\ ItemOfAssignment(assignment).unitPrice > 100
            /\ assignment.assignmentDate < now - ThirtyDays
        make(assignment) ==
            [type |-> "assignment_reminder", priority |-> "low",
             relatedId |-> assignment.id]
    IN  FilterMap(assignments, keep, make)

\* A variant whose thresholds take in 1000 and 5000.
ApprovalNotifications_Inclusive ==
    LET keep(invoice) == TotalValue(invoice.id) >= 1000
        make(invoice) ==
            [type |-> "invoice_approval",
             priority |-> IF TotalValue(invoice.id) >= 5000 THEN "high"
                          ELSE "medium",
             relatedId |-> invoice.id]
    IN  FilterMap(invoices, keep, make)

ApprovalNotifications ==
    LET keep(invoice) == TotalValue(invoice.id) > 1000
        make(invoice) ==
            [type |-> "invoice_approval",
             priority |-> IF TotalValue(invoice.id) > 5000 THEN "high"
                          ELSE "medium",
             relatedId |-> invoice.id]
    IN  FilterMap(invoices, keep, make)

Candidates(type) ==
    CASE type = "low_stock" -> LowStockNotifications
      [] type = "reorder_suggestion" -> ReorderNotifications
      [] type = "assignment_reminder" -> ReminderNotifications
      [] type = "invoice_approval" -> ApprovalNotifications

\* A variant pasted from checkLowStock with its type left as it was.
Recent_PastedType(n, type, relatedId) ==
    /\ n.type = "low_stock"
    /\ n.relatedId = relatedId
    /\ n.createdAt > now - Window(type)

\* A variant that does not look at the type.
Recent_AnyType(n, type, relatedId) ==
    /\ n.relatedId = relatedId
    /\ n.createdAt > now - Window(type)

\* A variant that still counts a row of exactly the window's age.
Recent_Inclusive(n, type, relatedId) ==
    /\ n.type = type
    /\ n.relatedId = relatedId
    /\ n.createdAt >= now - Window(type)

\* A variant that only counts unread rows.
Recent_Unread(n, type, relatedId) ==
    /\ n.type = type
    /\ n.relatedId = relatedId
    /\ n.isRead = 0
    /\ n.createdAt > now - Window(type)

\* A variant with the comparison turned round.
Recent_Reversed(n, type, relatedId) ==
    /\ n.type = type
    /\ n.relatedId = relatedId
    /\ n.createdAt < now - Window(type)

\* n.type === type && n.relatedId === id
\*   && new Date(n.createdAt).getTime() > Date.now() - window
Recent(n, type, relatedId) ==
    /\ n.type = type
    /\ n.relatedId = relatedId
    /\ n.createdAt > now - Window(type)

\* A variant whose find takes any row.
HasRecent_AnyRow(existing, type, relatedId) == existing # <<>>

\* existingNotifications.find(...) finds a row.
HasRecent(existing, type, relatedId) ==
    \E k \in DOMAIN existing : Recent(existing[k], type, relatedId)

\* An invocation of a check: not yet called ("idle"), called and awaiting
\* its first reads ("start"), awaiting getNotifications for the head of todo
\* ("read"), awaiting createNotification for it ("write"), returned from the
\* end of the try block ("done") or from the catch block ("caught"); a
\* promise that rejects would be "rejected".
MaxRunners == 2
Runners == 1..MaxRunners

CheckIdle == [pc |-> "idle", todo |-> <<>>]
CheckDone == [pc |-> "done", todo |-> <<>>]
CheckCaught == [pc |-> "caught", todo |-> <<>>]
CheckRejected == [pc |-> "rejected", todo |-> <<>>]

Running(r, c) == scan[r][c].pc \in {"start", "read", "write"}

ScannerIdle == \A r \in Runners, c \in Checks : ~Running(r, c)

\* The loop moves on to the next element, or the check returns.
Advance(r, c) ==
    scan' = [scan EXCEPT ![r][c] =
                IF Len(@.todo) > 1
                THEN [pc |-> "read", todo |-> Tail(@.todo)]
                ELSE CheckDone]

\* A variant without the try block: the error leaves the check.
Caught_Rethrow(r, c) == scan' = [scan EXCEPT ![r][c] = CheckRejected]

\* catch (error) { console.error(...) }: the check returns.
Caught(r, c) == scan' = [scan EXCEPT ![r][c] = CheckCaught]

\* The invocations still running; those that have returned are forgotten
\* when a new call is made.
StillRunning ==
    [r \in Runners |->
        [c \in Checks |-> IF Running(r, c) THEN scan[r][c] ELSE CheckIdle]]

\* The check is called.
Invoke(r, c) ==
    /\ ~Running(r, c)
    /\ scan' = [StillRunning EXCEPT ![r][c] = [pc |-> "start", todo |-> <<>>]]
    /\ UNCHANGED <<backend, handlerVars, invoices, notifications, now>>

\* Promise.all([...]): the four checks are called one after the other, each
\* up to its first await.
RunAllChecks(r) ==
    /\ \A c \in Checks : ~Running(r, c)
    /\ scan' = [StillRunning EXCEPT ![r] =
                   [c \in Checks |-> [pc |-> "start", todo |-> <<>>]]]
    /\ UNCHANGED <<backend, handlerVars, invoices, notifications, now>>

\* The first reads of the check return (getItems, getAssignments,
\* getInvoices); the loop begins. `throws` is a read failing.
CheckStart(r, c, throws) ==
    /\ scan[r][c].pc = "start"
    /\ IF throws THEN Caught(r, c)
       ELSE scan' = [scan EXCEPT ![r][c] =
                        IF Candidates(c) = <<>> THEN CheckDone
                        ELSE [pc |-> "read", todo |-> Candidates(c)]]
    /\ UNCHANGED <<backend, handlerVars, invoices, notifications, now>>

\* getNotifications returns and find runs: a recent notification of the key
\* skips the element, none goes on to createNotification.
CheckRead(r, c, throws) ==
    /\ scan[r][c].pc = "read"
    /\ IF throws THEN Caught(r, c)
       ELSE IF HasRecent(GetNotifications, c, Head(scan[r][c].todo).relatedId)
       THEN Advance(r, c)
       ELSE scan' = [scan EXCEPT ![r][c].pc = "write"]
    /\ UNCHANGED <<backend, handlerVars, invoices, notifications, now>>

\* createNotification returns.
CheckWrite(r, c, throws) ==
    /\ scan[r][c].pc = "write"
    /\ IF throws
       THEN Caught(r, c) /\ UNCHANGED notifications
       ELSE /\ notifications' = CreateNotification(Head(scan[r][c].todo))
            /\ Advance(r, c)
    /\ UNCHANGED <<backend, handlerVars, invoices, now>>

\* Time passes: the clock moves on to the next of the instants the model
\* looks at (apart by 24 h, 48 h, 6 days, 7 days, ...).
ClockInstants == {0, 24, 48, 168, 192}

Tick ==
    /\ \E t \in ClockInstants : t > now
    /\ now' = CHOOSE t \in ClockInstants :
                 t > now /\ \A u \in ClockInstants : u > now => t <= u
    /\ UNCHANGED <<backend, handlerVars, invoices, notifications, scan>>

\* ---------------------------------------------------------- specifications
Init ==
    /\ backend \in {"mem", "db"}
    /\ items = <<>>
    /\ assignments = <<>>
    /\ req = [p \in Procs |-> Idle]
    /\ reply = NoReply
    /\ invoices = <<>>
    /\ notifications = <<>>
    /\ now = 0
    /\ scan = [r \in Runners |-> [c \in Checks |-> CheckIdle]]

AssignmentLookup ==
    \E p \in Procs, body \in AssignmentBodies :
        PostAssignmentLookup(p, body, FALSE)
AssignmentCreate == \E p \in Procs : PostAssignmentCreate(p, FALSE)
AssignmentUpdate == \E p \in Procs : PostAssignmentUpdate(p, FALSE)
ItemsStart ==
    \E p \in Procs, body \in ItemsBodies : PostItemsStart(p, body, FALSE)
ItemsNext == \E p \in Procs : PostItemsNext(p, FALSE)
CreateItemCall == \E o \in RawItems : StorageCreateItem(o)

\* The assignment handlers of any number of connections interleave at their
\* awaits, and with item creation (each createItem is one step, whether it
\* comes from a turn of POST /api/items or from another caller).
Next ==
    \/ AssignmentLookup
    \/ AssignmentCreate
    \/ AssignmentUpdate
    \/ CreateItemCall

Spec == Init /\ [][Next]_vars

\* The scanner on its own, over tables that item creation and assignments
\* have left behind. Invocations do not overlap: a check, or runAllChecks, is
\* called only when no check is running.
MaxNotifications == 4

\* Low stock with an old assignment of a dear item; out of stock on an
\* invoice of high value; two cheap items, both low.
ScanScenarios ==
    {[items |->
        <<[id |-> 1, quantityPurchased |-> 6, quantityAvailable |-> 2,
           unitPrice |-> 150, invoiceId |-> 1]>>,
      assignments |->
        <<[id |-> 1, itemId |-> 1, quantity |-> 4,
           assignmentDate |-> -31 * 24]>>],
     [items |->
        <<[id |-> 1, quantityPurchased |-> 6, quantityAvailable |-> 0,
           unitPrice |-> 1000, invoiceId |-> 1]>>,
      assignments |->
        <<[id |-> 1, itemId |-> 1, quantity |-> 6, assignmentDate |-> 0]>>],
     [items |->
        <<[id |-> 1, quantityPurchased |-> 4, quantityAvailable |-> 3,
           unitPrice |-> 100, invoiceId |-> 1],
          [id |-> 2, quantityPurchased |-> 4, quantityAvailable |-> 4,
           unitPrice |-> 100, invoiceId |-> 1]>>,
      assignments |->
        <<[id |-> 1, itemId |-> 1, quantity |-> 1,
           assignmentDate |-> -31 * 24]>>]}

InitScan ==
    /\ backend \in {"mem", "db"}
    /\ \E s \in ScanScenarios :
          /\ items = s.items
          /\ assignments = s.assignments
    /\ invoices = <<[id |-> 1, invoiceNumber |-> "INV-1"]>>
    /\ req = [p \in Procs |-> Idle]
    /\ reply = NoReply
    /\ notifications = <<>>
    /\ now = 0
    /\ scan = [r \in Runners |-> [c \in Checks |-> CheckIdle]]

ScanInvoke == ScannerIdle /\ \E r \in Runners, c \in Checks : Invoke(r, c)
ScanRunAllChecks == ScannerIdle /\ \E r \in Runners : RunAllChecks(r)
ScanStart == \E r \in Runners, c \in Checks : CheckStart(r, c, FALSE)
ScanRead == \E r \in Runners, c \in Checks : CheckRead(r, c, FALSE)
ScanWrite ==
    /\ Len(notifications) < MaxNotifications
    /\ \E r \in Runners, c \in Checks : CheckWrite(r, c, FALSE)

ScanNext ==
    \/ ScanInvoke
    \/ ScanRunAllChecks
    \/ ScanStart
    \/ ScanRead
    \/ ScanWrite
    \/ Tick

SpecScan == InitScan /\ [][ScanNext]_vars

\* The scanner with invocations that overlap: each caller (runner) calls a
\* check, or runAllChecks, when its own earlier call has returned, whatever
\* the other callers' invocations are doing. The clock stands still: the
\* overlapping invocations take milliseconds of a clock counted in hours.
RunnerIdle(r) == \A c \in Checks : ~Running(r, c)

OverlapInvoke ==
    \E r \in Runners, c \in Checks : RunnerIdle(r) /\ Invoke(r, c)
OverlapRunAllChecks == \E r \in Runners : RunAllChecks(r)

OverlapNext ==
    \/ OverlapInvoke
    \/ OverlapRunAllChecks
    \/ ScanStart
    \/ ScanRead
    \/ ScanWrite

SpecOverlap == InitScan /\ [][OverlapNext]_vars

\* One invocation of a check, or of runAllChecks, at hour 0 over tables of
\* four families: two items of stock 0..5 on one invoice of total 1000; two
\* items of 10 units at five prices on one or two invoices; one item at 100
\* or 101 with two assignments of it, or of an item that does not exist,
\* made 30 days or 30 days and an hour before; and MixedTables. At most one
\* notification exists beforehand.
StockLevels == 0..5
UnitPrices == {80, 100, 120, 500, 600}
ReminderPrices == {100, 101}
AssignmentAges == {30 * 24, 30 * 24 + 1}
MissingItem == 3

TwoInvoices ==
    <<[id |-> 1, invoiceNumber |-> "INV-1"],
      [id |-> 2, invoiceNumber |-> "INV-2"]>>

StockTables ==
    {[items |->
        <<[id |-> 1, quantityPurchased |-> 5, quantityAvailable |-> a,
           unitPrice |-> 100, invoiceId |-> 1],
          [id |-> 2, quantityPurchased |-> 5, quantityAvailable |-> b,
           unitPrice |-> 100, invoiceId |-> 1]>>,
      assignments |-> <<>>] : a \in StockLevels, b \in StockLevels}

ValueTables ==
    {[items |->
        <<[id |-> 1, quantityPurchased |-> 10, quantityAvailable |-> 5,
           unitPrice |-> u, invoiceId |-> 1],
          [id |-> 2, quantityPurchased |-> 10, quantityAvailable |-> 5,
           unitPrice |-> v, invoiceId |-> i]>>,
      assignments |-> <<>>] : u \in UnitPrices, v \in UnitPrices, i \in {1, 2}}

AgedTables ==
    {[items |->
        <<[id |-> 1, quantityPurchased |-> 5, quantityAvailable |-> 5,
           unitPrice |-> u, invoiceId |-> 1]>>,
      assignments |->
        <<[id |-> 1, itemId |-> i, quantity |-> 1, assignmentDate |-> -d],
          [id |-> 2, itemId |-> j, quantity |-> 1, assignmentDate |-> -e]>>] :
        u \in ReminderPrices, i \in {1, MissingItem}, j \in {1, MissingItem},
        d \in AssignmentAges, e \in AssignmentAges}

\* One item, low or out of stock, on an invoice of 6000, with an old
\* assignment: the item, the assignment and the invoice all have id 1.
MixedTables ==
    {[items |->
        <<[id |-> 1, quantityPurchased |-> 10, quantityAvailable |-> a,
           unitPrice |-> 600, invoiceId |-> 1]>>,
      assignments |->
        <<[id |-> 1, itemId |-> 1, quantity |-> 10 - a,
           assignmentDate |-> -(30 * 24 + 1)]>>] : a \in {0, 2}}

RunTables == StockTables \cup ValueTables \cup AgedTables \cup MixedTables

\* A notification of each type just inside its window, one exactly at it,
\* and one of another item or assignment.
PriorKeys ==
    {<<"low_stock", 1, 1>>, <<"low_stock", 1, LowStockWindow>>,
     <<"reorder_suggestion", 1, ReorderWindow - 1>>,
     <<"reorder_suggestion", 1, ReorderWindow>>,
     <<"reorder_suggestion", 2, 1>>,
     <<"assignment_reminder", 1, ReminderWindow - 1>>,
     <<"assignment_reminder", 1, ReminderWindow>>,
     <<"assignment_reminder", 2, 1>>,
     <<"invoice_approval", 1, ApprovalWindow - 1>>}

PriorNotifications ==
    {<<>>} \cup
    {<<[id |-> 1, type |-> k[1], priority |-> "medium", relatedId |-> k[2],
        isRead |-> 0, createdAt |-> -k[3]]>> : k \in PriorKeys}

InitRun ==
    /\ backend \in {"mem", "db"}
    /\ \E s \in RunTables :
          /\ items = s.items
          /\ assignments = s.assignments
    /\ invoices = TwoInvoices
    /\ req = [p \in Procs |-> Idle]
    /\ reply = NoReply
    /\ notifications \in PriorNotifications
    /\ now = 0
    /\ scan = [r \in Runners |-> [c \in Checks |-> CheckIdle]]

NothingCalled == \A r \in Runners, c \in Checks : scan[r][c].pc = "idle"

RunInvoke == NothingCalled /\ \E c \in Checks : Invoke(1, c)
RunRunAllChecks == NothingCalled /\ RunAllChecks(1)
RunStart == \E c \in Checks : CheckStart(1, c, FALSE)
RunRead == \E c \in Checks : CheckRead(1, c, FALSE)
RunWrite == \E c \in Checks : CheckWrite(1, c, FALSE)

RunNext ==
    \/ RunInvoke
    \/ RunRunAllChecks
    \/ RunStart
    \/ RunRead
    \/ RunWrite

SpecRun == InitRun /\ [][RunNext]_vars

\* One runAllChecks call, or one check, in which any storage call may fail.
FaultStart == \E c \in Checks, throws \in BOOLEAN : CheckStart(1, c, throws)
FaultRead == \E c \in Checks, throws \in BOOLEAN : CheckRead(1, c, throws)
FaultWrite == \E c \in Checks, throws \in BOOLEAN : CheckWrite(1, c, throws)

FaultNext ==
    \/ RunInvoke
    \/ RunRunAllChecks
    \/ FaultStart
    \/ FaultRead
    \/ FaultWrite

SpecFault == InitRun /\ [][FaultNext]_vars

\* The scanner creating notifications while they are marked read, one by one
\* (by an id that exists or not) and all at once.
NotificationIds == 1..(MaxNotifications + 1)

MarkOne == \E id \in NotificationIds : MarkNotificationAsRead(id)
MarkAll == MarkAllNotificationsAsRead

ReadNext ==
    \/ ScanInvoke
    \/ ScanStart
    \/ ScanRead
    \/ ScanWrite
    \/ Tick
    \/ MarkOne
    \/ MarkAll

\* Two items, both low in stock.
InitRead == InitScan /\ Len(items) = 2

SpecRead == InitRead /\ [][ReadNext]_vars

\* Requests are processed one at a time: a request starts only when no other
\* is being handled.
SeqAssignmentLookup == NoneInFlight /\ AssignmentLookup
SeqCreateItemCall == NoneInFlight /\ CreateItemCall

SeqNext ==
    \/ SeqAssignmentLookup
    \/ AssignmentCreate
    \/ AssignmentUpdate
    \/ SeqCreateItemCall

SpecSeq == Init /\ [][SeqNext]_vars

\* Item creation: POST /api/items of any number of connections, and
\* storage.createItem called directly.
ItemsSpecNext ==
    \/ ItemsStart
    \/ ItemsNext
    \/ CreateItemCall

SpecItems == Init /\ [][ItemsSpecNext]_vars

\* POST /api/assignments one request at a time, where each storage call the
\* handler awaits may reject (the database is away, a statement fails): the
\* handler's catch answers 500.
FailingLookup ==
    /\ NoneInFlight
    /\ \E p \in Procs, body \in AssignmentBodies, throws \in BOOLEAN :
          PostAssignmentLookup(p, body, throws)
FailingCreate ==
    \E p \in Procs, throws \in BOOLEAN : PostAssignmentCreate(p, throws)
FailingUpdate ==
    \E p \in Procs, throws \in BOOLEAN : PostAssignmentUpdate(p, throws)

FailingNext ==
    \/ FailingLookup
    \/ FailingCreate
    \/ FailingUpdate
    \/ SeqCreateItemCall

SpecFailing == Init /\ [][FailingNext]_vars

\* ------------------------------------------------------ POST /api/invoices
MaxInvoices == 3

Null == "null"
InvoiceNumberInputs == {"INV-1", "INV-2"}
VendorNameInputs == {"Acme"}
PurchaseDateInputs == {"2024-01-15"}
FileInputs == {Null, "invoice.pdf"}

\* What a client may send: the three text fields with or without an upload,
\* or a form without invoiceNumber.
InvoiceBodies ==
    [invoiceNumber : InvoiceNumberInputs, vendorName : VendorNameInputs,
     purchaseDate : PurchaseDateInputs, file : FileInputs]
    \cup [vendorName : VendorNameInputs, purchaseDate : PurchaseDateInputs,
          file : FileInputs]

\* const invoiceData = {...}: a field the form lacks is undefined and so
\* absent; fileName and filePath come from the upload or are null.
InvoiceData(body) ==
    Spread(Strip(body, {"invoiceNumber", "vendorName", "purchaseDate"}),
           [fileName |-> body.file, filePath |-> body.file])

\* insertInvoiceSchema.parse: the three notNull text columns are required.
InsertInvoiceSchemaParse(invoiceData) ==
    IF {"invoiceNumber", "vendorName", "purchaseDate"}
           \subseteq DOMAIN invoiceData
    THEN Strip(invoiceData, {"invoiceNumber", "vendorName", "purchaseDate",
                             "fileName", "filePath"})
    ELSE ZodError

\* invoice_number is .unique(): the database rejects an insert whose
\* invoiceNumber a row already has.
UniqueViolation(insertInvoice) ==
    \E k \in DOMAIN invoices :
        invoices[k].invoiceNumber = insertInvoice.invoiceNumber

\* createInvoice. MemStorage: the next id, the row set in the map.
\* DatabaseStorage: one insert, which the unique constraint may reject.
MemCreateInvoice(insertInvoice) ==
    [throws |-> FALSE,
     invoices |->
        Append(invoices, Spread(insertInvoice, [id |-> Len(invoices) + 1]))]

DbCreateInvoice(insertInvoice) ==
    IF UniqueViolation(insertInvoice)
    THEN [throws |-> TRUE, invoices |-> invoices]
    ELSE [throws |-> FALSE,
          invoices |->
             Append(invoices,
                    Spread(insertInvoice, [id |-> Len(invoices) + 1]))]

CreateInvoice(insertInvoice) ==
    IF backend = "mem" THEN MemCreateInvoice(insertInvoice)
    ELSE DbCreateInvoice(insertInvoice)

\* The handler: parse, await createInvoice, res.json(invoice).
PostInvoices(p, body) ==
    LET validatedData == InsertInvoiceSchemaParse(InvoiceData(body))
        r == [Idle EXCEPT !.kind = "invoice", !.body = body]
    IN  /\ Free(p)
        /\ Len(invoices) < MaxInvoices
        /\ IF validatedData = ZodError
           THEN /\ Respond(p, r, 400, "Validation error", 0, <<>>)
                /\ UNCHANGED invoices
           ELSE LET call == CreateInvoice(validatedData)
                IN  IF call.throws
                    THEN /\ Respond(p, r, 500, "Failed to create invoice",
                                    0, <<>>)
                         /\ UNCHANGED invoices
                    ELSE /\ invoices' = call.invoices
                         /\ Respond(p, r, 200, "", 0,
                                    <<call.invoices[Len(call.invoices)]>>)
        /\ UNCHANGED <<backend, items, assignments, notifications, now, scan>>

\* storage.createInvoice called directly; a rejected call changes nothing.
StorageCreateInvoice(insertInvoice) ==
    /\ Len(invoices) < MaxInvoices
    /\ ~CreateInvoice(insertInvoice).throws
    /\ invoices' = CreateInvoice(insertInvoice).invoices
    /\ UNCHANGED <<backend, handlerVars, notifications, now, scan>>

InvoicesPost == \E p \in Procs, body \in InvoiceBodies : PostInvoices(p, body)
CreateInvoiceCall ==
    \E body \in InvoiceBodies :
        /\ InsertInvoiceSchemaParse(InvoiceData(body)) # ZodError
        /\ StorageCreateInvoice(InsertInvoiceSchemaParse(InvoiceData(body)))

InvoicesNext ==
    \/ InvoicesPost
    \/ CreateInvoiceCall

SpecInvoices == Init /\ [][InvoicesNext]_vars

\* ------------------------------------------------------------ GET routes
\* items.reduce((sum, item) => sum + item[field], 0)
SumOf(table, field) ==
    LET sum[k \in 0..Len(table)] ==
            IF k = 0 THEN 0 ELSE sum[k - 1] + table[k][field]
    IN  sum[Len(table)]

\* items.filter(item => item.quantityAvailable < 5)
LowStockFilter(table) ==
    SelectSeq(table, LAMBDA item : item.quantityAvailable < 5)

\* GET /api/items/low-stock: await getItems, filter, res.json.
GetLowStock(p) ==
    /\ Free(p)
    /\ Respond(p, [Idle EXCEPT !.kind = "low-stock"], 200, "", 0,
               LowStockFilter(items))
    /\ UNCHANGED <<backend, items, assignments, scannerVars>>

\* GET /api/dashboard/metrics up to its second await: the items are read.
GetMetricsItems(p) ==
    /\ Free(p)
    /\ req' = [req EXCEPT ![p] =
                  [Idle EXCEPT !.pc = "metrics", !.kind = "metrics",
                               !.todo = items]]
    /\ UNCHANGED <<backend, items, assignments, reply, scannerVars>>

\* The body sent back, from the items and the assignments as they were read.
Metrics(itemsRead, assignmentsRead) ==
    [totalItems |-> SumOf(itemsRead, "quantityPurchased"),
     availableItems |-> SumOf(itemsRead, "quantityAvailable"),
     assignedItems |-> SumOf(assignmentsRead, "quantity"),
     lowStockItems |-> Len(LowStockFilter(itemsRead))]

\* ... and from there: the assignments are read, the sums taken, res.json.
GetMetricsAssignments(p) ==
    /\ req[p].pc = "metrics"
    /\ Respond(p, req[p], 200, "", 0, <<Metrics(req[p].todo, assignments)>>)
    /\ UNCHANGED <<backend, items, assignments, scannerVars>>

\* Reads and writes, one request at a time.
SeqGetLowStock == NoneInFlight /\ \E p \in Procs : GetLowStock(p)
SeqGetMetrics == NoneInFlight /\ \E p \in Procs : GetMetricsItems(p)
MetricsAssignments == \E p \in Procs : GetMetricsAssignments(p)

GetNext ==
    \/ SeqAssignmentLookup
    \/ AssignmentCreate
    \/ AssignmentUpdate
    \/ SeqCreateItemCall
    \/ SeqGetLowStock
    \/ SeqGetMetrics
    \/ MetricsAssignments

SpecGet == Init /\ [][GetNext]_vars

\* The low-stock check of one caller while stock is being assigned and
\* notifications are being marked read: two low items, time passing.
DriftInvoke == ScannerIdle /\ Invoke(1, "low_stock")

\* Requests of connection 1 that take 1 or 2 of an item in stock.
DriftBodies ==
    {body \in AssignmentBodies :
        /\ "quantity" \in DOMAIN body
        /\ body.itemId \in 1..MaxItems
        /\ body.quantity \in 1..MaxQty}

DriftAssignmentLookup ==
    /\ NoneInFlight
    /\ \E body \in DriftBodies : PostAssignmentLookup(1, body, FALSE)

\* The clock up to the first instant at which a window has run out.
DriftTick == now < LowStockWindow /\ Tick

DriftNext ==
    \/ DriftInvoke
    \/ ScanStart
    \/ ScanRead
    \/ ScanWrite
    \/ DriftTick
    \/ MarkOne
    \/ MarkAll
    \/ DriftAssignmentLookup
    \/ AssignmentCreate
    \/ AssignmentUpdate

InitDrift == InitRead /\ backend = "db"

SpecDrift == InitDrift /\ [][DriftNext]_vars

\* ================================================================ claims
\* The assigned quantity of item i: the sum over the assignments naming it.
AssignedQuantity(i) ==
    LET sum[k \in 0..Len(assignments)] ==
            IF k = 0 THEN 0
            ELSE sum[k - 1] + (IF assignments[k].itemId = i
                               THEN assignments[k].quantity ELSE 0)
    IN  sum[Len(assignments)]

AssignmentsOf(i) ==
    {k \in DOMAIN assignments : assignments[k].itemId = i}

OnlyPositiveAssignments(i) ==
    \A k \in AssignmentsOf(i) : assignments[k].quantity > 0

\* In this step connection p takes up a new request: it either goes on to an
\* await or answers at once.
Starts(p) ==
    /\ Free(p)
    /\ \/ req'[p].pc # "idle"
       \/ reply' # reply /\ reply'.conn = p
StartedKind(p) == IF req'[p].pc # "idle" THEN req'[p].kind ELSE reply'.kind
StartedBody(p) == IF req'[p].pc # "idle" THEN req'[p].body ELSE reply'.body

\* In this step connection p answers with this status and message.
Answers(p, status, message) ==
    /\ req'[p] = Idle
    /\ reply'.conn = p
    /\ reply'.status = status
    /\ reply'.message = message

WellFormedAssignment(body) ==
    {"itemId", "quantity", "assignmentDate"} \subseteq DOMAIN body

\* C1: with requests processed one at a time, an item created with
\* quantityPurchased >= 0 that only assignments of quantity > 0 have touched
\* has 0 <= quantityAvailable <= quantityPurchased.
C1_AvailableWithinPurchased ==
    \A i \in DOMAIN items :
        (items[i].quantityPurchased >= 0 /\ OnlyPositiveAssignments(i))
        => /\ 0 <= items[i].quantityAvailable
           /\ items[i].quantityAvailable <= items[i].quantityPurchased

C1_Witness ==
    \E i \in DOMAIN items :
        /\ items[i].quantityPurchased = MaxQty
        /\ OnlyPositiveAssignments(i)
        /\ Cardinality(AssignmentsOf(i)) = 2
        /\ items[i].quantityAvailable = 0
        /\ NoneInFlight

\* C2: once every request has finished, each item's quantityAvailable is
\* its quantityPurchased (its value before any request) minus the sum of the
\* quantities of the assignments created for it.
C2_AtomicDecrement ==
    NoneInFlight =>
        \A i \in DOMAIN items :
            (items[i].quantityPurchased >= 0 /\ OnlyPositiveAssignments(i))
            => items[i].quantityAvailable
                   = items[i].quantityPurchased - AssignedQuantity(i)

\* C3: a request for more than the item's quantityAvailable is answered 400
\* "Insufficient quantity" quoting that count, and the step changes neither
\* the assignments nor the items.
C3_InsufficientRejected ==
    [][\A p \in Procs :
        (/\ Starts(p)
         /\ StartedKind(p) = "assignment"
         /\ WellFormedAssignment(StartedBody(p))
         /\ StartedBody(p).itemId \in DOMAIN items
         /\ StartedBody(p).quantity
                > items[StartedBody(p).itemId].quantityAvailable)
        => /\ Answers(p, 400, "Insufficient quantity")
           /\ reply'.available = items[StartedBody(p).itemId].quantityAvailable
           /\ assignments' = assignments
           /\ items' = items]_vars

C3_Witness ==
    /\ reply.kind = "assignment"
    /\ reply.status = 400
    /\ reply.message = "Insufficient quantity"
    /\ reply.available = 1
    /\ reply.body.quantity = 2
    /\ items[reply.body.itemId].quantityAvailable = 1
    /\ items[reply.body.itemId].quantityPurchased = 2

\* C4 as stated: when two requests have both passed the availability check
\* on the same stock, so that the assignments of an item add up to more than
\* was purchased, the item's stored quantityAvailable is negative.
C4_RaceGoesNegative ==
    \A i \in DOMAIN items :
        (/\ NoneInFlight
         /\ items[i].quantityPurchased >= 0
         /\ OnlyPositiveAssignments(i)
         /\ AssignedQuantity(i) > items[i].quantityPurchased)
        => items[i].quantityAvailable < 0

\* C4 as amended: under any interleaving the stored quantityAvailable of an
\* item created with quantityPurchased >= 0 is never negative (what the race
\* loses is a decrement: see C4_Witness).
C4_NeverNegative ==
    \A i \in DOMAIN items :
        items[i].quantityPurchased >= 0 => items[i].quantityAvailable >= 0

C4_Witness ==
    \E i \in DOMAIN items :
        /\ NoneInFlight
        /\ items[i].quantityPurchased > 0
        /\ OnlyPositiveAssignments(i)
        /\ Cardinality(AssignmentsOf(i)) = 2
        /\ AssignedQuantity(i) > items[i].quantityPurchased
        /\ items[i].quantityAvailable
               > items[i].quantityPurchased - AssignedQuantity(i)
        /\ items[i].quantityAvailable >= 0

\* C5: with requests processed one at a time, a request for exactly the
\* item's quantityAvailable passes the check, its createAssignment appends
\* exactly one record (that of the request), and its updateItemQuantity
\* leaves the item at 0, changes no assignment and answers 200 with the
\* record.
C5_ExactQuantitySucceeds ==
    [][\A p \in Procs :
        /\ (/\ Starts(p)
            /\ StartedKind(p) = "assignment"
            /\ WellFormedAssignment(StartedBody(p))
            /\ StartedBody(p).itemId \in DOMAIN items
            /\ StartedBody(p).quantity
                   = items[StartedBody(p).itemId].quantityAvailable)
           => /\ req'[p].pc = "create"
              /\ assignments' = assignments
              /\ items' = items
        /\ (/\ req[p].pc = "create"
            /\ req'[p] # req[p]
            /\ req[p].body.quantity
                   = items[req[p].body.itemId].quantityAvailable)
           => /\ req'[p].pc = "update"
              /\ Len(assignments') = Len(assignments) + 1
              /\ SubSeq(assignments', 1, Len(assignments)) = assignments
              /\ assignments'[Len(assignments')].itemId = req[p].body.itemId
              /\ assignments'[Len(assignments')].quantity
                     = req[p].body.quantity
              /\ items' = items
        /\ (/\ req[p].pc = "update"
            /\ req'[p] # req[p]
            /\ req[p].body.quantity
                   = items[req[p].body.itemId].quantityAvailable)
           => /\ Answers(p, 200, "")
              /\ reply'.payload = <<assignments[Len(assignments)]>>
              /\ items'[req[p].body.itemId].quantityAvailable = 0
              /\ assignments' = assignments]_vars

C5_Witness ==
    /\ NoneInFlight
    /\ reply.kind = "assignment"
    /\ reply.status = 200
    /\ reply.body.quantity = MaxQty
    /\ items[reply.body.itemId].quantityPurchased = MaxQty
    /\ items[reply.body.itemId].quantityAvailable = 0
    /\ Cardinality(AssignmentsOf(reply.body.itemId)) = 1

\* C6: POST /api/assignments turns a request away in three distinct ways,
\* decided in this order: a malformed body is answered 400 "Validation
\* error" (whatever its itemId), a well-formed one naming no item 404 "Item
\* not found" (whatever its quantity), a well-formed one asking for more
\* than is available 400 "Insufficient quantity"; none of the three changes
\* the assignments or the items.
C6_FailureModes ==
    [][\A p \in Procs :
        (Starts(p) /\ StartedKind(p) = "assignment")
        => LET body == StartedBody(p)
               rejected(status, message) ==
                   /\ Answers(p, status, message)
                   /\ assignments' = assignments
                   /\ items' = items
           IN  IF ~WellFormedAssignment(body)
               THEN rejected(400, "Validation error")
               ELSE IF body.itemId \notin DOMAIN items
               THEN rejected(404, "Item not found")
               ELSE IF body.quantity > items[body.itemId].quantityAvailable
               THEN rejected(400, "Insufficient quantity")
               ELSE req'[p].pc = "create"]_vars

\* A malformed request naming no item was answered "Validation error".
C6_Witness ==
    /\ reply.kind = "assignment"
    /\ ~WellFormedAssignment(reply.body)
    /\ reply.body.itemId \notin DOMAIN items
    /\ reply.status = 400
    /\ reply.message = "Validation error"
    /\ Len(items) > 0

\* C7: every row createItem adds has quantityAvailable = quantityPurchased,
\* in either backend, and so has every row POST /api/items sends back,
\* whether or not the object handed in carried a quantityAvailable.
C7_CreatedAvailableIsPurchased ==
    [][/\ Len(items') > Len(items)
          => /\ Len(items') = Len(items) + 1
             /\ items'[Len(items')].quantityAvailable
                    = items'[Len(items')].quantityPurchased
       /\ (reply' # reply /\ reply'.kind = "items")
          => \A k \in DOMAIN reply'.payload :
                reply'.payload[k].quantityAvailable
                    = reply'.payload[k].quantityPurchased]_vars

\* A batch whose first object carried another quantityAvailable was created.
C7_Witness ==
    /\ reply.kind = "items"
    /\ reply.status = 200
    /\ "items" \in DOMAIN reply.body
    /\ Len(reply.payload) = 2
    /\ "quantityAvailable" \in DOMAIN reply.body.items[1]
    /\ reply.body.items[1].quantityAvailable
           # reply.body.items[1].quantityPurchased
    /\ reply.payload[1].quantityPurchased
           = reply.body.items[1].quantityPurchased
    /\ reply.payload[1].quantityAvailable
           = reply.body.items[1].quantityPurchased
    /\ items[reply.payload[1].id] = reply.payload[1]

\* C8: every assignment record has quantity > 0.
C8_PositiveQuantities ==
    \A k \in DOMAIN assignments : assignments[k].quantity > 0

\* C9: no step raises the quantityAvailable of an existing item.
C9_NeverIncreases ==
    [][\A i \in DOMAIN items :
        items'[i].quantityAvailable <= items[i].quantityAvailable]_vars

\* C10: in the persistent backend, with invocations that do not overlap, two
\* notifications of the same type and relatedId are never created less than
\* the type's window apart (24 h, 48 h, 7 days, 24 h).
C10_OnePerWindow ==
    backend = "db" =>
        \A j \in DOMAIN notifications, k \in DOMAIN notifications :
            (/\ j < k
             /\ notifications[j].type = notifications[k].type
             /\ notifications[j].relatedId = notifications[k].relatedId)
            => notifications[k].createdAt - notifications[j].createdAt
                   >= Window(notifications[j].type)

\* Two reminders of one assignment exactly 7 days apart, and two low-stock
\* notifications of one item exactly 24 hours apart.
C10_Witness ==
    /\ backend = "db"
    /\ \E j \in DOMAIN notifications, k \in DOMAIN notifications :
          /\ notifications[j].type = "assignment_reminder"
          /\ notifications[k].type = "assignment_reminder"
          /\ notifications[j].relatedId = notifications[k].relatedId
          /\ notifications[k].createdAt - notifications[j].createdAt
                 = ReminderWindow
    /\ \E j \in DOMAIN notifications, k \in DOMAIN notifications :
          /\ notifications[j].type = "low_stock"
          /\ notifications[k].type = "low_stock"
          /\ notifications[j].relatedId = notifications[k].relatedId
          /\ notifications[k].createdAt - notifications[j].createdAt
                 = LowStockWindow

\* The notifications of a key that are younger than the type's window.
Fresh(type, relatedId) ==
    {k \in DOMAIN notifications :
        /\ notifications[k].type = type
        /\ notifications[k].relatedId = relatedId
        /\ notifications[k].createdAt > now - Window(type)}

RelatedIds == 1..MaxItems

\* C11: in the persistent backend, with invocations that overlap, at most
\* one notification of a type and relatedId is younger than the type's
\* window: overlapping invocations never both emit for one key.
C11_AtMostOneFresh ==
    backend = "db" =>
        \A type \in Checks, relatedId \in RelatedIds :
            Cardinality(Fresh(type, relatedId)) <= 1

\* The row a step has added to the notifications.
Created == notifications'[Len(notifications')]

Creates == Len(notifications') > Len(notifications)

\* C12: in the persistent backend, with items, assignments and invoices
\* unchanged and invocations that do not overlap, no step of a check creates
\* a notification of a type and relatedId while one of that key is younger
\* than the type's window: a second run inside the window creates nothing.
C12_IdempotentInWindow ==
    [][(backend = "db" /\ Creates)
       => \A k \in DOMAIN notifications :
             ~(/\ notifications[k].type = Created.type
               /\ notifications[k].relatedId = Created.relatedId
               /\ notifications[k].createdAt
                      > now - Window(Created.type))]_vars

\* A second run of the low-stock check is at an item that has a low_stock
\* notification of the same hour, and a run of the reminder check a day
\* after the reminder was created is at its assignment: both will skip.
C12_Witness ==
    /\ backend = "db"
    /\ now = 24
    /\ \E r \in Runners :
          /\ scan[r]["low_stock"].pc = "read"
          /\ HasRecent(notifications, "low_stock",
                       Head(scan[r]["low_stock"].todo).relatedId)
          /\ scan[r]["assignment_reminder"].pc = "read"
          /\ HasRecent(notifications, "assignment_reminder",
                       Head(scan[r]["assignment_reminder"].todo).relatedId)
    /\ \E k \in DOMAIN notifications :
          /\ notifications[k].type = "assignment_reminder"
          /\ notifications[k].createdAt = 0
    /\ \A k \in DOMAIN notifications :
          notifications[k].type = "assignment_reminder"
          => notifications[k].createdAt = 0

\* The notifications of a type and relatedId that the run has created (the
\* run is at hour 0, what came before it is older).
CreatedBy(type, relatedId) ==
    {k \in DOMAIN notifications :
        /\ notifications[k].type = type
        /\ notifications[k].relatedId = relatedId
        /\ notifications[k].createdAt >= 0}

CreatedOfType(type) ==
    {k \in DOMAIN notifications :
        notifications[k].type = type /\ notifications[k].createdAt >= 0}

Returned(c) == scan[1][c].pc = "done"

\* C13: in the persistent backend, once a run of the low-stock check that
\* began with no notifications has returned, each item with
\* 0 < quantityAvailable < 5 has exactly one low_stock notification, urgent
\* for 1 and 2 and high for 3 and 4, and no other low_stock notification
\* exists.
C13_LowStockRun ==
    (/\ backend = "db"
     /\ Returned("low_stock")
     /\ \A k \in DOMAIN notifications : notifications[k].createdAt >= 0)
    => /\ \A i \in DOMAIN items :
            IF 0 < items[i].quantityAvailable /\ items[i].quantityAvailable < 5
            THEN /\ Cardinality(CreatedBy("low_stock", items[i].id)) = 1
                 /\ \A k \in CreatedBy("low_stock", items[i].id) :
                       notifications[k].priority
                           = IF items[i].quantityAvailable <= 2 THEN "urgent"
                             ELSE "high"
            ELSE CreatedBy("low_stock", items[i].id) = {}
       /\ \A k \in CreatedOfType("low_stock") :
             \E i \in DOMAIN items : notifications[k].relatedId = items[i].id

\* The run has returned over an item of stock 2 and one of stock 3: an
\* urgent and a high notification.
C13_Witness ==
    /\ backend = "db"
    /\ Returned("low_stock")
    /\ Len(items) = 2
    /\ items[1].quantityAvailable = 2
    /\ items[2].quantityAvailable = 3
    /\ \E j \in CreatedBy("low_stock", 1), k \in CreatedBy("low_stock", 2) :
          /\ notifications[j].priority = "urgent"
          /\ notifications[k].priority = "high"
    /\ Len(notifications) = 2

\* C14: in the persistent backend, once a run of the invoice-approval check
\* that began with no notifications has returned, each invoice whose items'
\* unitPrice * quantityPurchased add up to more than 1000 has exactly one
\* invoice_approval notification, high above 5000 and medium up to 5000, and
\* no other invoice has one.
C14_ApprovalRun ==
    (/\ backend = "db"
     /\ Returned("invoice_approval")
     /\ \A k \in DOMAIN notifications : notifications[k].createdAt >= 0)
    => /\ \A v \in DOMAIN invoices :
            IF TotalValue(invoices[v].id) > 1000
            THEN /\ Cardinality(CreatedBy("invoice_approval",
                                          invoices[v].id)) = 1
                 /\ \A k \in CreatedBy("invoice_approval", invoices[v].id) :
                       notifications[k].priority
                           = IF TotalValue(invoices[v].id) > 5000 THEN "high"
                             ELSE "medium"
            ELSE CreatedBy("invoice_approval", invoices[v].id) = {}
       /\ \A k \in CreatedOfType("invoice_approval") :
             \E v \in DOMAIN invoices :
                 notifications[k].relatedId = invoices[v].id

\* The run has returned over an invoice of exactly 5000 and one of 6000: a
\* medium and a high notification.
C14_Witness ==
    /\ backend = "db"
    /\ Returned("invoice_approval")
    /\ TotalValue(1) = 5000
    /\ TotalValue(2) = 6000
    /\ \E j \in CreatedBy("invoice_approval", 1),
          k \in CreatedBy("invoice_approval", 2) :
          /\ notifications[j].priority = "medium"
          /\ notifications[k].priority = "high"
    /\ Len(notifications) = 2

\* A notification of the key that existed before the run and was created
\* within the last `window` hours.
PriorWithin(type, relatedId, window) ==
    \E k \in DOMAIN notifications :
        /\ notifications[k].createdAt < 0
        /\ notifications[k].type = type
        /\ notifications[k].relatedId = relatedId
        /\ notifications[k].createdAt > now - window

\* C15: in the persistent backend, once a run of the reorder check has
\* returned, it has created one reorder_suggestion of priority medium for
\* each item with quantityAvailable = 0 that had no reorder_suggestion of
\* the last 48 hours, and none for any other item, whatever low_stock
\* notification the item has.
C15_ReorderRun ==
    (backend = "db" /\ Returned("reorder_suggestion"))
    => /\ \A i \in DOMAIN items :
            IF /\ items[i].quantityAvailable = 0
               /\ ~PriorWithin("reorder_suggestion", items[i].id, 48)
            THEN /\ Cardinality(CreatedBy("reorder_suggestion",
                                          items[i].id)) = 1
                 /\ \A k \in CreatedBy("reorder_suggestion", items[i].id) :
                       notifications[k].priority = "medium"
            ELSE CreatedBy("reorder_suggestion", items[i].id) = {}
       /\ \A k \in CreatedOfType("reorder_suggestion") :
             \E i \in DOMAIN items : notifications[k].relatedId = items[i].id

\* Item 1 is out of stock and has a low_stock notification an hour old: the
\* run has returned and has created its reorder_suggestion.
C15_Witness ==
    /\ backend = "db"
    /\ Returned("reorder_suggestion")
    /\ Len(items) = 2
    /\ items[1].quantityAvailable = 0
    /\ items[2].quantityAvailable = 3
    /\ PriorWithin("low_stock", 1, LowStockWindow)
    /\ Cardinality(CreatedBy("reorder_suggestion", 1)) = 1
    /\ Len(notifications) = 2

\* The assignment is more than 30 days old and names an existing item whose
\* unitPrice is above 100.
Qualifies(a) ==
    /\ a.assignmentDate < now - 30 * 24
    /\ \E i \in DOMAIN items :
          items[i].id = a.itemId /\ items[i].unitPrice > 100

\* C16: in the persistent backend, once a run of the reminder check has
\* returned, it has created one assignment_reminder of priority low, keyed
\* by the assignment's id, for each qualifying assignment that had no
\* assignment_reminder of the last 7 days, and none for any other.
C16_ReminderRun ==
    (backend = "db" /\ Returned("assignment_reminder"))
    => /\ \A a \in DOMAIN assignments :
            IF /\ Qualifies(assignments[a])
               /\ ~PriorWithin("assignment_reminder", assignments[a].id,
                               7 * 24)
            THEN /\ Cardinality(CreatedBy("assignment_reminder",
                                          assignments[a].id)) = 1
                 /\ \A k \in CreatedBy("assignment_reminder",
                                       assignments[a].id) :
                       notifications[k].priority = "low"
            ELSE CreatedBy("assignment_reminder", assignments[a].id) = {}
       /\ \A k \in CreatedOfType("assignment_reminder") :
             \E a \in DOMAIN assignments :
                 notifications[k].relatedId = assignments[a].id

\* Two qualifying assignments of item 1: the run has returned and each has
\* its own reminder.
C16_Witness ==
    /\ backend = "db"
    /\ Returned("assignment_reminder")
    /\ Len(assignments) = 2
    /\ \A a \in DOMAIN assignments :
          assignments[a].itemId = 1 /\ Qualifies(assignments[a])
    /\ Cardinality(CreatedBy("assignment_reminder", 1)) = 1
    /\ Cardinality(CreatedBy("assignment_reminder", 2)) = 1
    /\ Len(notifications) = 2

\* The check run on its own from a table to its return: for each candidate
\* in turn, a find over the table as it then is, and a row added when
\* nothing recent is found.
RunCheckOn(table, c) ==
    LET todo == Candidates(c)
        f[k \in 0..Len(todo)] ==
            IF k = 0 THEN table
            ELSE IF HasRecent(f[k - 1], c, todo[k].relatedId) THEN f[k - 1]
                 ELSE Append(f[k - 1],
                             Spread(todo[k],
                                    [id |-> Len(f[k - 1]) + 1, isRead |-> 0,
                                     createdAt |-> now]))
    IN  f[Len(todo)]

\* The four checks one after another in the given order.
OneAfterAnother(table, order) ==
    LET f[k \in 0..Len(order)] ==
            IF k = 0 THEN table ELSE RunCheckOn(f[k - 1], order[k])
    IN  f[Len(order)]

Orders ==
    {o \in [1..Cardinality(Checks) -> Checks] :
        \A j, k \in DOMAIN o : j # k => o[j] # o[k]}

\* The notifications that existed before the run.
PriorTable ==
    SelectSeq(notifications, LAMBDA n : n.createdAt < 0)

\* What a table holds, whatever the ids and the order of its rows.
Content(table) ==
    {[type |-> table[k].type, relatedId |-> table[k].relatedId,
      priority |-> table[k].priority, createdAt |-> table[k].createdAt] :
        k \in DOMAIN table}

AllReturned == \A c \in Checks : Returned(c)

\* C17: in the persistent backend, once the four checks of a runAllChecks
\* call have all returned, the notifications are, up to ids and order, those
\* that the four checks run one after another leave, in every order, and as
\* many.
C17_ConcurrentAsSequential ==
    (backend = "db" /\ AllReturned)
    => \A o \in Orders :
          /\ Content(notifications)
                 = Content(OneAfterAnother(PriorTable, o))
          /\ Len(notifications) = Len(OneAfterAnother(PriorTable, o))

\* runAllChecks has returned over an item, an assignment and an invoice that
\* all have id 1, and three checks have each created their notification of
\* relatedId 1.
C17_Witness ==
    /\ backend = "db"
    /\ AllReturned
    /\ PriorTable = <<>>
    /\ Cardinality(CreatedBy("low_stock", 1)) = 1
    /\ Cardinality(CreatedBy("assignment_reminder", 1)) = 1
    /\ Cardinality(CreatedBy("invoice_approval", 1)) = 1
    /\ notifications[1].type = "invoice_approval"
    /\ notifications[3].type = "low_stock"

\* The rows of a type in a table, whatever their ids and order.
ContentOfType(table, type) == {n \in Content(table) : n.type = type}

\* Every check of the runAllChecks call has settled.
AllSettled ==
    \A c \in Checks : scan[1][c].pc \in {"done", "caught", "rejected"}

\* C18: whatever storage calls fail, no check's promise rejects (so
\* Promise.all of runAllChecks does not), and in the persistent backend,
\* once all four have settled, each check that met no failure has created
\* the notifications it creates when run with no failure at all.
C18_FailuresIsolated ==
    /\ \A c \in Checks : scan[1][c].pc # "rejected"
    /\ (backend = "db" /\ AllSettled)
       => \A c \in Checks :
             Returned(c)
             => ContentOfType(notifications, c)
                    = ContentOfType(RunCheckOn(PriorTable, c), c)

\* The low-stock check has failed and created nothing; the reminder and the
\* approval check of the same call have created their notifications.
C18_Witness ==
    /\ backend = "db"
    /\ AllSettled
    /\ PriorTable = <<>>
    /\ scan[1]["low_stock"].pc = "caught"
    /\ items[1].quantityAvailable = 2
    /\ CreatedOfType("low_stock") = {}
    /\ Returned("assignment_reminder")
    /\ Returned("invoice_approval")
    /\ Returned("reorder_suggestion")
    /\ Cardinality(CreatedBy("assignment_reminder", 1)) = 1
    /\ Cardinality(CreatedBy("invoice_approval", 1)) = 1

\* The step is a call of markNotificationAsRead, of markAllNotificationsAsRead
\* (the only steps that leave the scanner and the clock as they are).
IsMarkOne ==
    /\ reply'.kind = "markNotificationAsRead"
    /\ scan' = scan
    /\ now' = now

IsMarkAll ==
    /\ reply'.kind = "markAllNotificationsAsRead"
    /\ scan' = scan
    /\ now' = now

\* C19: in the persistent backend no step takes a notification away or sets
\* the isRead of a read notification back to 0, a notification that a step
\* creates is unread, and markNotificationAsRead of a notification already
\* read returns that row, read, and changes nothing.
C19_ReadIsOneWay ==
    [][backend = "db"
       => /\ Len(notifications') >= Len(notifications)
          /\ \A k \in DOMAIN notifications :
                /\ notifications'[k].id = notifications[k].id
                /\ notifications[k].isRead = 1
                   => notifications'[k].isRead = 1
          /\ \A k \in DOMAIN notifications' :
                k > Len(notifications) => notifications'[k].isRead = 0
          /\ \A k \in DOMAIN notifications :
                (/\ IsMarkOne
                 /\ reply'.body.id = notifications[k].id
                 /\ notifications[k].isRead = 1)
                => /\ notifications' = notifications
                   /\ reply'.payload = <<notifications[k]>>]_vars

\* Notification 1 has been marked read by a call that returned it, after
\* markAllNotificationsAsRead or another call had marked notification 2, and
\* a notification created since is unread.
C19_Witness ==
    /\ backend = "db"
    /\ Len(notifications) = 3
    /\ reply.kind = "markNotificationAsRead"
    /\ reply.body.id = 1
    /\ reply.payload = <<notifications[1]>>
    /\ notifications[1].isRead = 1
    /\ notifications[2].isRead = 1
    /\ notifications[3].isRead = 0

\* C20: in the persistent backend a call of markAllNotificationsAsRead
\* leaves getUnreadNotifications empty, changes nothing but isRead, neither
\* adds nor removes a notification, and changes nothing at all when no
\* notification was unread.
C20_MarkAllRead ==
    [][(backend = "db" /\ IsMarkAll)
       => /\ GetUnreadNotifications' = <<>>
          /\ Len(notifications') = Len(notifications)
          /\ \A k \in DOMAIN notifications :
                [notifications'[k] EXCEPT !.isRead = notifications[k].isRead]
                    = notifications[k]
          /\ GetUnreadNotifications = <<>>
             => notifications' = notifications]_vars

\* markAllNotificationsAsRead has returned over three notifications, and
\* all three are read.
C20_Witness ==
    /\ backend = "db"
    /\ reply.kind = "markAllNotificationsAsRead"
    /\ Len(notifications) = 3
    /\ \A k \in DOMAIN notifications : notifications[k].isRead = 1
    /\ GetUnreadNotifications = <<>>

\* C21: the steps of a POST /api/assignments that succeeds change nothing but
\* the new record and the quantityAvailable of the item it names: the check
\* changes no table; createAssignment adds one record after the existing
\* ones, which stay as they were, and changes no item; updateItemQuantity
\* changes no assignment, no other item and no other field of the item
\* (quantityPurchased included); no step changes an invoice or a
\* notification.
C21_SuccessFrame ==
    [][\A p \in Procs :
        /\ (Starts(p) /\ StartedKind(p) = "assignment")
           => /\ assignments' = assignments
              /\ items' = items
              /\ invoices' = invoices
              /\ notifications' = notifications
        /\ (req[p].pc = "create" /\ req'[p] # req[p])
           => /\ Len(assignments') = Len(assignments) + 1
              /\ SubSeq(assignments', 1, Len(assignments)) = assignments
              /\ items' = items
              /\ invoices' = invoices
              /\ notifications' = notifications
        /\ (req[p].pc = "update" /\ Answers(p, 200, ""))
           => /\ assignments' = assignments
              /\ DOMAIN items' = DOMAIN items
              /\ \A i \in DOMAIN items :
                    /\ i # req[p].body.itemId => items'[i] = items[i]
                    /\ [items'[i] EXCEPT !.quantityAvailable =
                            items[i].quantityAvailable] = items[i]
              /\ invoices' = invoices
              /\ notifications' = notifications]_vars

\* A second assignment of item 1 has succeeded: both records are there, the
\* item kept its quantityPurchased and lost stock, and item 2 is as created.
C21_Witness ==
    /\ NoneInFlight
    /\ reply.kind = "assignment"
    /\ reply.status = 200
    /\ reply.body.itemId = 1
    /\ Len(items) = 2
    /\ Len(assignments) = 2
    /\ reply.payload = <<assignments[2]>>
    /\ assignments[1].id = 1
    /\ assignments[2].id = 2
    /\ items[1].quantityPurchased = MaxQty
    /\ items[1].quantityAvailable = 0
    /\ items[2].quantityAvailable = items[2].quantityPurchased

\* C22: when POST /api/assignments answers 500 "Failed to create
\* assignment", the tables hold no record that this request created and the
\* items are as they were when the request read them.
C22_NoPartialEffect ==
    [][\A p \in Procs :
        (/\ req[p].kind = "assignment"
         /\ ~Free(p)
         /\ Answers(p, 500, "Failed to create assignment"))
        => /\ \A k \in DOMAIN req[p].created :
                 \A j \in DOMAIN assignments' :
                    assignments'[j] # req[p].created[k]
           /\ items' = items]_vars

\* C23: no two invoices have the same invoiceNumber, in either backend.
C23_UniqueInvoiceNumber ==
    \A i \in DOMAIN invoices :
        \A j \in DOMAIN invoices :
            i # j => invoices[i].invoiceNumber # invoices[j].invoiceNumber

\* C24: the assignments are an append-only log: every step leaves each
\* existing record in place and as it was, and the table never shrinks.
C24_AppendOnly ==
    [][/\ Len(assignments') >= Len(assignments)
       /\ SubSeq(assignments', 1, Len(assignments)) = assignments]_vars

\* Two records of different items and quantities, each still under the id it
\* was created with.
C24_Witness ==
    /\ Len(assignments) = 2
    /\ assignments[1].id = 1
    /\ assignments[2].id = 2
    /\ assignments[1].itemId # assignments[2].itemId
    /\ assignments[1].quantity # assignments[2].quantity
    /\ NoneInFlight

\* The items that are low stock as the glossary has it.
GlossaryLowStock ==
    SelectSeq(items, LAMBDA item :
                        0 < item.quantityAvailable
                        /\ item.quantityAvailable < 5)

\* C25: GET /api/items/low-stock answers with exactly the items whose
\* quantityAvailable is above 0 and below 5, and the lowStockItems of GET
\* /api/dashboard/metrics is their number.
C25_LowStockIsGlossary ==
    [][\A p \in Procs :
        /\ (Free(p) /\ Answers(p, 200, "") /\ reply'.kind = "low-stock")
           => reply'.payload = GlossaryLowStock
        /\ (req[p].pc = "metrics" /\ Answers(p, 200, ""))
           => reply'.payload[1].lowStockItems = Len(GlossaryLowStock)]_vars

\* C27: with requests processed one at a time and every assignment of
\* quantity > 0, between requests each item's quantityPurchased is its
\* quantityAvailable plus the quantities of the assignments naming it, and
\* the body GET /api/dashboard/metrics sends has totalItems = availableItems
\* + assignedItems.
C27_StockConserved ==
    (\A k \in DOMAIN assignments : assignments[k].quantity > 0)
    => /\ NoneInFlight
          => \A i \in DOMAIN items :
                items[i].quantityPurchased
                    = items[i].quantityAvailable + AssignedQuantity(i)
       /\ reply.kind = "metrics"
          => reply.payload[1].totalItems
                 = reply.payload[1].availableItems
                       + reply.payload[1].assignedItems

\* The dashboard was read after two assignments of quantity 1 against two
\* items of MaxQty each.
C27_Witness ==
    /\ NoneInFlight
    /\ reply.kind = "metrics"
    /\ Len(items) = 2
    /\ Len(assignments) = 2
    /\ \A k \in DOMAIN assignments : assignments[k].quantity = 1
    /\ reply.payload[1].totalItems = 2 * MaxQty
    /\ reply.payload[1].assignedItems = 2
    /\ reply.payload[1].availableItems = 2 * MaxQty - 2

\* C28: when POST /api/items answers a batch with 400 "Validation error",
\* the table holds none of the items this request created.
C28_BatchAllOrNothing ==
    [][\A p \in Procs :
        (/\ req[p].pc = "items"
         /\ "items" \in DOMAIN req[p].body
         /\ Answers(p, 400, "Validation error"))
        => \A k \in DOMAIN req[p].created :
              \A i \in DOMAIN items' : items'[i] # req[p].created[k]]_vars

\* C26: in the in-memory backend the notification methods are no-ops: no
\* step (createNotification, markNotificationAsRead,
\* markAllNotificationsAsRead) changes the notifications, getNotifications
\* and getUnreadNotifications return empty lists, markNotificationAsRead
\* returns no row, and a check that has read the notifications for an
\* element always goes on to createNotification for it: dedup never skips.
C26_MemNoOps ==
    [][backend = "mem"
       => /\ notifications = <<>>
          /\ notifications' = <<>>
          /\ GetNotifications = <<>>
          /\ GetUnreadNotifications = <<>>
          /\ IsMarkOne => reply'.payload = <<>>
          /\ \A r \in Runners, c \in Checks :
                (scan[r][c].pc = "read" /\ scan'[r][c] # scan[r][c])
                => /\ scan'[r][c].pc = "write"
                   /\ scan'[r][c].todo = scan[r][c].todo
          /\ \A r \in Runners, c \in Checks :
                (scan[r][c].pc = "start" /\ scan'[r][c] # scan[r][c])
                => scan'[r][c].todo = Candidates(c)]_vars

\* In the in-memory backend, after a mark-read call, the low-stock check has
\* called createNotification for the first low item and is about to call it
\* for the second; nothing is stored.
C26_Witness ==
    /\ backend = "mem"
    /\ reply.kind \in {"markNotificationAsRead", "markAllNotificationsAsRead"}
    /\ notifications = <<>>
    /\ \E r \in Runners :
          /\ scan[r]["low_stock"].pc = "write"
          /\ Len(scan[r]["low_stock"].todo) = 1
          /\ Head(scan[r]["low_stock"].todo).relatedId = 2

\* C29: in the persistent backend, when a check has read the notifications
\* for an element and every notification of the element's type and
\* relatedId has createdAt <= now - window (an age of exactly the window
\* included), the check goes on to createNotification for it, and the row
\* that call adds is of that key with createdAt now.
C29_SuppressionEnds ==
    [][backend = "db"
       => /\ \A r \in Runners, c \in Checks :
                (/\ scan[r][c].pc = "read"
                 /\ scan'[r][c] # scan[r][c]
                 /\ \A k \in DOMAIN notifications :
                       (/\ notifications[k].type = c
                        /\ notifications[k].relatedId
                               = Head(scan[r][c].todo).relatedId)
                       => notifications[k].createdAt <= now - Window(c))
                => /\ scan'[r][c].pc = "write"
                   /\ scan'[r][c].todo = scan[r][c].todo
          /\ \A r \in Runners, c \in Checks :
                (scan[r][c].pc = "write" /\ scan'[r][c] # scan[r][c])
                => /\ Len(notifications') = Len(notifications) + 1
                   /\ notifications'[Len(notifications')].type = c
                   /\ notifications'[Len(notifications')].relatedId
                          = Head(scan[r][c].todo).relatedId
                   /\ notifications'[Len(notifications')].createdAt = now]_vars

\* Item 1 is still low in stock: a run exactly 24 hours after its low_stock
\* notification was created has just created a second one.
C29_Witness ==
    /\ backend = "db"
    /\ \E j \in DOMAIN notifications, k \in DOMAIN notifications :
          /\ notifications[j].type = "low_stock"
          /\ notifications[k].type = "low_stock"
          /\ notifications[j].relatedId = 1
          /\ notifications[k].relatedId = 1
          /\ notifications[k].createdAt = now
          /\ notifications[j].createdAt = now - LowStockWindow
    /\ items[1].quantityAvailable \in 1..4

\* C30: in the persistent backend, while stock is assigned and notifications
\* are marked read, a low-stock check that has read the notifications for an
\* item skips it whenever a low_stock notification of that item is younger
\* than 24 hours, whatever that notification's isRead and priority and
\* whatever the item's quantityAvailable has become; so no step creates a
\* low_stock notification for an item that has one younger than 24 hours.
C30_DedupByKeyAndAge ==
    [][backend = "db"
       => /\ \A r \in Runners :
                (/\ scan[r]["low_stock"].pc = "read"
                 /\ scan'[r]["low_stock"] # scan[r]["low_stock"]
                 /\ Fresh("low_stock",
                          Head(scan[r]["low_stock"].todo).relatedId) # {})
                => /\ scan'[r]["low_stock"].pc # "write"
                   /\ notifications' = notifications
          /\ (Creates /\ Created.type = "low_stock")
             => Fresh("low_stock", Created.relatedId) = {}]_vars

\* Item 1 was notified as "high", the notification has been marked read and
\* the item has since dropped into the urgent range: a run less than 24
\* hours later is at the item with an "urgent" candidate, about to skip it.
C30_Witness ==
    /\ backend = "db"
    /\ items[1].quantityAvailable \in 1..2
    /\ scan[1]["low_stock"].pc = "read"
    /\ Head(scan[1]["low_stock"].todo).relatedId = 1
    /\ Head(scan[1]["low_stock"].todo).priority = "urgent"
    /\ Cardinality(Fresh("low_stock", 1)) = 1
    /\ \A k \in Fresh("low_stock", 1) :
          /\ notifications[k].priority = "high"
          /\ notifications[k].isRead = 1

====
